---- MODULE Spec2Model ----
(***************************************************************************)
(* A model of the Blurit SDK client (src/src/blurit.common.ts and its two  *)
(* platform variants src/src/blurit.node.ts and src/src/blurit.browser.ts),*)
(* and of the pull-mode example that uses it (src/examples/with_pull.ts).  *)
(*                                                                         *)
(* JavaScript values are tagged records [t |-> <type>, v |-> <payload>],   *)
(* so that values of different types can be compared.  An object is an     *)
(* ordered sequence of <<key, value>> pairs (the order is the one          *)
(* `for ... in` enumerates).                                                *)
(***************************************************************************)
EXTENDS Integers, Sequences, FiniteSets, TLC

VARIABLES
    window,     \* TRUE when a global `window` is defined in the runtime
    built,      \* built[c]: the instance c has been constructed and the caller holds it
    variant,    \* variant[c]: "node" (blurit.node.ts), "browser" (blurit.browser.ts),
                \* or "common" (an instance that Blurit.new made)
    isNode,     \* isNode[c]: the field Blurit.isNode
    fetchInit,  \* fetchInit[c]: the field Blurit.fetchInit
    loginData,  \* loginData[c]: the field Blurit.loginData (the Session)
    calls,      \* calls[s]: the invocation of a public method running in slot s
    authLog,    \* history: the last two successful login and refresh responses, and
                \* the order of issue of the login and refresh requests in flight
    form,       \* the arguments and the FormData of createJob (encoder runs)
    webhooks,   \* the registry of the server, and what the client's last webhook
                \* calls were (webhook runs)
    disk        \* disk[o]: the file named o, and the write stream that is open on it

vars == <<window, built, variant, isNode, fetchInit, loginData, calls, authLog, form,
          webhooks, disk>>

----------------------------------------------------------------------------
(* JavaScript values *)

Undefined == [t |-> "undefined"]
Null == [t |-> "null"]
S(x) == [t |-> "string", v |-> x]
N(x) == [t |-> "number", v |-> x]
B(x) == [t |-> "boolean", v |-> x]
O(pairs) == [t |-> "object", v |-> pairs]
EmptyObj == O(<<>>)

IsObj(x) == x.t = "object"

KeySet(o) == {o.v[i][1] : i \in 1..Len(o.v)}
Has(o, k) == IsObj(o) /\ k \in KeySet(o)

\* o[k]: the value of the property, undefined when the object has no such key
Get(o, k) ==
    IF Has(o, k)
    THEN o.v[CHOOSE i \in 1..Len(o.v) : o.v[i][1] = k][2]
    ELSE Undefined

\* {...a, k: x}
Put(o, k, x) ==
    IF Has(o, k)
    THEN O([i \in 1..Len(o.v) |-> IF o.v[i][1] = k THEN <<k, x>> ELSE o.v[i]])
    ELSE O(Append(o.v, <<k, x>>))

RECURSIVE PutAll(_, _, _)
PutAll(o, pairs, i) ==
    IF i > Len(pairs) THEN o
    ELSE PutAll(Put(o, pairs[i][1], pairs[i][2]), pairs, i + 1)

\* {...a, ...b}; spreading undefined adds nothing
Spread(a, b) == IF IsObj(b) THEN PutAll(a, b.v, 1) ELSE a

\* `${x}` in a template literal
ToStr(x) ==
    CASE x.t = "string" -> x.v
      [] x.t = "number" -> ToString(x.v)
      [] x.t = "boolean" -> (IF x.v THEN "true" ELSE "false")
      [] x.t = "undefined" -> "undefined"
      [] x.t = "null" -> "null"
      [] OTHER -> "[object Object]"

\* the truthiness of a value, as `if (x)` and `x ? a : b` test it
Truthy(x) ==
    CASE x.t = "undefined" -> FALSE
      [] x.t = "null" -> FALSE
      [] x.t = "boolean" -> x.v
      [] x.t = "number" -> x.v # 0
      [] x.t = "string" -> x.v # ""
      [] OTHER -> TRUE

\* new Error(message)
Err(message) == [t |-> "Error", v |-> message]

----------------------------------------------------------------------------
(* Blobs, files and multipart forms *)

\* new Blob([bytes], {type})
Blob(bytes, type) == [t |-> "Blob", v |-> [bytes |-> bytes, type |-> type]]
\* a File: a Blob that has a name
File(name, bytes, type) ==
    [t |-> "File", v |-> [name |-> name, bytes |-> bytes, type |-> type]]

NewFormData == [t |-> "FormData", v |-> <<>>]

\* FormData.append(name, value): a value that is no Blob is converted to a string
FormAppend(fd, name, value) ==
    [fd EXCEPT !.v = Append(@, [name |-> ToStr(name),
                                value |-> S(ToStr(value)),
                                filename |-> Undefined])]

\* FormData.append(name, blob, filename)
FormAppendBlob(fd, name, blob, filename) ==
    [fd EXCEPT !.v = Append(@, [name |-> ToStr(name),
                                value |-> blob,
                                filename |-> filename])]

----------------------------------------------------------------------------
(* The options encoder: Blurit.appendFormData *)

\* a mutant of isPresent: the test `if (data[key])`
isPresent_truthy(x) == Truthy(x)

\* x !== undefined && x !== null
isPresent(x) == x # Undefined /\ x # Null

\* a mutant of newKey: a dotted key path
newKey_dotted(parentKey, key) ==
    IF Truthy(parentKey) THEN S(ToStr(parentKey) \o "." \o key) ELSE S(key)

\* parentKey ? `${parentKey}[${key}]` : key
newKey(parentKey, key) ==
    IF Truthy(parentKey) THEN S(ToStr(parentKey) \o "[" \o key \o "]") ELSE S(key)

RECURSIVE appendFormData(_, _, _)
RECURSIVE appendFormDataKeys(_, _, _, _)

\* the loop `for (const key in data)` of appendFormData, from the i-th key on
appendFormDataKeys(formData, data, parentKey, i) ==
    IF i > Len(data.v) THEN formData
    ELSE LET key == data.v[i][1]
             val == data.v[i][2]
             fd == IF isPresent(val)
                   THEN appendFormData(formData, val, newKey(parentKey, key))
                   ELSE formData
         IN  appendFormDataKeys(fd, data, parentKey, i + 1)

appendFormData(formData, data, parentKey) ==
    IF Truthy(data) /\ data.t = "object"
    THEN appendFormDataKeys(formData, data, parentKey, 1)
    ELSE IF data # Undefined /\ data # Null
         THEN IF data.t \in {"Blob", "File"}
              THEN FormAppendBlob(formData, parentKey, data, Undefined)
              ELSE FormAppend(formData, parentKey, data)
         ELSE formData

\* the form Blurit.createJob builds from its arguments
createJobForm(args) ==
    LET media == Get(args, "data")
        withMedia == FormAppendBlob(NewFormData, S("input_media"), media,
                                    IF media.t = "File" THEN S(media.v.name)
                                    ELSE Get(args, "filename"))
    IN  IF Truthy(Get(args, "options"))
        THEN appendFormData(withMedia, Get(args, "options"), Undefined)
        ELSE withMedia

----------------------------------------------------------------------------
(* The authenticated request pipeline: Blurit.request *)

Return(x) == [kind |-> "return", value |-> x]
Throw(e) == [kind |-> "throw", value |-> e]
Pending == [kind |-> "pending", value |-> Undefined]

\* a mutant of requestHeaders: the bearer header is attached to every request
requestHeaders_always(options, ld) ==
    O(<< <<"Authorization", S("Bearer " \o ToStr(Get(ld, "token")))>> >>)

\* a mutant of requestHeaders: the bearer is the refresh token of the Session
requestHeaders_refreshToken(options, ld) ==
    IF Truthy(Get(options, "noBearer"))
    THEN EmptyObj
    ELSE O(<< <<"Authorization", S("Bearer " \o ToStr(Get(ld, "refreshToken")))>> >>)

\* the `headers` object of Blurit.request
requestHeaders(options, ld) ==
    IF Truthy(Get(options, "noBearer"))
    THEN EmptyObj
    ELSE O(<< <<"Authorization", S("Bearer " \o ToStr(Get(ld, "token")))>> >>)

\* a mutant of requestConfig: the computed headers are added to the base headers
requestConfig_baseHeaders(path, fi, options, ld) ==
    Spread(Spread(Spread(O(<< <<"url", S(path)>> >>), fi), options),
           O(<< <<"data", Get(options, "data")>>,
                <<"headers", Spread(Get(fi, "headers"),
                                    requestHeaders(options, ld))>> >>))

\* the configuration Blurit.request hands to axiosInstance.request
requestConfig(path, fi, options, ld) ==
    Spread(Spread(Spread(O(<< <<"url", S(path)>> >>), fi), options),
           O(<< <<"data", Get(options, "data")>>,
                <<"headers", requestHeaders(options, ld)>> >>))

\* a mutant of requestOutcome: the test `res.status > 300`
requestOutcome_gt(path, res) ==
    IF res.status > 300
    THEN Throw(Err("Error calling " \o path \o ": " \o res.statusText))
    ELSE Return(res.data)

\* what Blurit.request does with the response the transport handed back
requestOutcome(path, res) ==
    IF res.status >= 300
    THEN Throw(Err("Error calling " \o path \o ": " \o res.statusText))
    ELSE Return(res.data)

\* a mutant of saveLoginData: the Session that is held is not replaced
saveLoginData_keep(old, data) == IF old = O(<<>>) THEN data ELSE old

\* a mutant of saveLoginData: the response is merged into the Session
saveLoginData_merge(old, data) == Spread(old, data)

\* Blurit.saveLoginData: this.loginData = data
saveLoginData(old, data) == data

\* data instanceof Error
InstanceOfError(data) == data.t = "Error"

----------------------------------------------------------------------------
(* The inputs of the runs *)

\* at most MaxInFlight invocations run at the same time (the call slots)
MaxInFlight == 2

Clients == {"c1", "c2"}
Variants == {"node", "browser"}

\* the base configurations given to the constructor
FetchInits ==
    { Undefined,
      O(<< <<"timeout", N(1000)>>,
           <<"headers", O(<< <<"X-Trace", S("on")>>,
                             <<"Authorization", S("Basic abc")>> >>)>> >>),
      O(<< <<"url", S("/elsewhere")>>,
           <<"method", S("PATCH")>>,
           <<"data", S("base-data")>>,
           <<"responseType", S("text")>> >>) }

TripleA == O(<< <<"token", S("tokA")>>, <<"refreshToken", S("refA")>>,
                <<"expireTime", N(3600)>> >>)
TripleB == O(<< <<"token", S("tokB")>>, <<"refreshToken", S("refB")>>,
                <<"expireTime", N(7200)>> >>)
\* a body that lacks fields of the triple: the shape is not validated
PartialBody == O(<< <<"token", S("tokC")>> >>)
StreamBody == [t |-> "Stream", v |-> <<"FFD8", "blurred">>]
ErrorBody == O(<< <<"message", S("invalid refresh token")>> >>)

\* the responses the transport may hand back
Responses ==
    { [status |-> 200, statusText |-> "OK", data |-> TripleA],
      [status |-> 299, statusText |-> "Custom", data |-> TripleB],
      [status |-> 200, statusText |-> "OK", data |-> PartialBody],
      [status |-> 200, statusText |-> "OK", data |-> StreamBody],
      [status |-> 300, statusText |-> "Multiple Choices", data |-> TripleB],
      [status |-> 404, statusText |-> "Not Found", data |-> ErrorBody] }

\* the errors the transport may raise instead of handing back a response
TransportErrors ==
    { [t |-> "AxiosError", v |-> "Network Error"],
      [t |-> "AxiosError", v |-> "Request failed with status code 401"] }

\* a file path is the sequence of its segments (the parts between "/")
FilePath(segments) == [t |-> "path", v |-> segments]
\* filePath.split("/").pop()
LastSegment(filePath) == S(filePath.v[Len(filePath.v)])

JpegBytes == <<"FFD8", "face">>
TextBytes == <<"6869", "notes">>

\* fileTypeFromBuffer: the type that the leading bytes announce, if any
fileTypeFromBuffer(bytes) ==
    IF Len(bytes) > 0 /\ bytes[1] = "FFD8"
    THEN O(<< <<"ext", S("jpg")>>, <<"mime", S("image/jpeg")>> >>)
    ELSE IF Len(bytes) > 0 /\ bytes[1] = "8950"
    THEN O(<< <<"ext", S("png")>>, <<"mime", S("image/png")>> >>)
    ELSE Undefined

\* the options given to the job-creation methods in the client runs
SomeOptions ==
    O(<< <<"activation_faces_blur", B(TRUE)>>,
         <<"blur_type", O(<< <<"anonymization_type", S("pixelate")>>,
                             <<"num_pixels", N(10)>> >>)>> >>)
CallOptions == {Undefined, SomeOptions}

ResponseTypes == {S("stream"), S("arraybuffer"), S("buffer"), S("blob"), Undefined}

----------------------------------------------------------------------------
(* The call slots *)

Slots == DOMAIN calls

IdleCall ==
    [pc |-> "idle", client |-> "c1", method |-> "", args |-> <<>>,
     locals |-> EmptyObj, path |-> Undefined, req |-> Undefined,
     nreq |-> 0, reads |-> 0, writes |-> 0, res |-> Undefined,
     result |-> Pending,
     seen |-> [n |-> 0, last |-> Undefined, passed |-> FALSE]]

\* the invocation of method m of client c with the arguments args
NewCall(c, m, args) ==
    [IdleCall EXCEPT !.pc = "run", !.client = c, !.method = m, !.args = args]

\* the invocation settles: its promise resolves or rejects with `outcome`
Settle(call, outcome) ==
    [call EXCEPT !.pc = "done", !.result = outcome]

\* Blurit.request up to its await: the request is handed to the transport
request(call, path, options) ==
    [call EXCEPT !.pc = "await",
                 !.path = S(path),
                 !.req = requestConfig(path, fetchInit[call.client], options,
                                       loginData[call.client]),
                 !.nreq = @ + 1]

\* Blurit.createJob: builds the form and issues the request
createJob(call, args) ==
    request(call, "/innovation-service/anonymization",
            O(<< <<"method", S("POST")>>, <<"data", createJobForm(args)>> >>))

----------------------------------------------------------------------------
(* The public methods, up to their first await *)

config == <<built, variant, isNode, fetchInit>>

CanInvoke(s, c) == calls[s].pc = "idle" /\ built[c]

\* the in-flight login and refresh requests `order` without the one of slot s
Without(order, s) == SelectSeq(order, LAMBDA e : e.slot # s)

\* the history notes the order of issue of the login and refresh requests in
\* flight, the oldest first, in the runs that record it: slot s now runs `call`
Tracked(h, s, call) ==
    IF ~h.race THEN h
    ELSE [h EXCEPT !.order =
            IF call.pc = "await" /\ call.method \in {"login", "refresh"}
            THEN Append(Without(@, s), [slot |-> s, passed |-> FALSE])
            ELSE Without(@, s)]

\* the invocation in slot s becomes `call`; the Session is not touched
Run(s, call) ==
    /\ calls' = [calls EXCEPT ![s] = call]
    /\ authLog' = Tracked(authLog, s, call)
    /\ UNCHANGED <<window, config, loginData, form, webhooks, disk>>

\* a mutant of login: the client keeps the credentials to log in again
login_remembers(s, c, clientId, secretId) ==
    /\ CanInvoke(s, c)
    /\ calls' = [calls EXCEPT ![s] =
                   request(NewCall(c, "login", <<clientId, secretId>>), "/login",
                           O(<< <<"method", S("POST")>>,
                                <<"data", O(<< <<"clientId", clientId>>,
                                               <<"secretId", secretId>> >>)>>,
                                <<"noBearer", B(TRUE)>> >>))]
    /\ loginData' = [loginData EXCEPT ![c] = Put(Put(@, "clientId", clientId),
                                                  "secretId", secretId)]
    /\ authLog' = authLog
    /\ UNCHANGED <<window, config, form, webhooks, disk>>

login(s, c, clientId, secretId) ==
    /\ CanInvoke(s, c)
    /\ Run(s, request(NewCall(c, "login", <<clientId, secretId>>), "/login",
                      O(<< <<"method", S("POST")>>,
                           <<"data", O(<< <<"clientId", clientId>>,
                                          <<"secretId", secretId>> >>)>>,
                           <<"noBearer", B(TRUE)>> >>)))

\* a mutant of refreshData: the access token is sent as the refresh token
refreshData_token(ld) == O(<< <<"refreshToken", Get(ld, "token")>> >>)

\* { refreshToken: this.loginData.refreshToken }
refreshData(ld) == O(<< <<"refreshToken", Get(ld, "refreshToken")>> >>)

refresh(s, c) ==
    /\ CanInvoke(s, c)
    /\ Run(s, request(NewCall(c, "refresh", <<>>), "/token",
                      O(<< <<"method", S("POST")>>,
                           <<"data", refreshData(loginData[c])>> >>)))

\* the node variant awaits readFile; the browser variant throws
createJobFromPath(s, c, filePath, options) ==
    /\ CanInvoke(s, c)
    /\ LET call == NewCall(c, "createJobFromPath", <<filePath, options>>)
       IN  IF variant[c] = "node"
           THEN Run(s, [call EXCEPT !.pc = "read", !.reads = @ + 1,
                                    !.locals = O(<< <<"filePath", filePath>>,
                                                    <<"options", options>> >>)])
           ELSE Run(s, Settle(call,
                    Throw(Err("createJobFromPath is only available in Node.js"))))

\* createJobFromBuffer up to `await fileTypeFromBuffer(buffer)`
createJobFromBufferStart(call, buffer, filename, options) ==
    [call EXCEPT !.pc = "sniff",
                 !.locals = O(<< <<"buffer", buffer>>, <<"filename", filename>>,
                                 <<"options", options>> >>)]

createJobFromBuffer(s, c, buffer, filename, options) ==
    /\ CanInvoke(s, c)
    /\ Run(s, createJobFromBufferStart(
                  NewCall(c, "createJobFromBuffer", <<buffer, filename, options>>),
                  buffer, filename, options))

createJobFromFile(s, c, file, options) ==
    /\ CanInvoke(s, c)
    /\ Run(s, createJob(NewCall(c, "createJobFromFile", <<file, options>>),
                        O(<< <<"data", file>>, <<"options", options>> >>)))

createJobFromBlob(s, c, blob, filename, options) ==
    /\ CanInvoke(s, c)
    /\ Run(s, createJob(NewCall(c, "createJobFromBlob", <<blob, filename, options>>),
                        O(<< <<"data", blob>>, <<"filename", filename>>,
                             <<"options", options>> >>)))

getJobStatus(s, c, jobId) ==
    /\ CanInvoke(s, c)
    /\ Run(s, request(NewCall(c, "getJobStatus", <<jobId>>),
                      "/innovation-service/anonymization?anonymization_job_id="
                          \o ToStr(jobId),
                      O(<< <<"method", S("GET")>> >>)))

\* a mutant of getResultFileRejects: the representations are never rejected
getResultFileRejects_never(c, responseType) == FALSE

\* !this.isNode && (responseType === "buffer" || responseType === "stream")
getResultFileRejects(c, responseType) ==
    ~isNode[c] /\ (responseType = S("buffer") \/ responseType = S("stream"))

\* a mutant of getResultFileType: the representation is requested as given
getResultFileType_same(responseType) == responseType

\* responseType == "buffer" ? "arraybuffer" : responseType
getResultFileType(responseType) ==
    IF responseType = S("buffer") THEN S("arraybuffer") ELSE responseType

\* the body of Blurit.getResultFile, run by the invocation `call`
getResultFileBody(call, filename, responseType) ==
    IF getResultFileRejects(call.client, responseType)
    THEN Settle(call, Throw(Err(ToStr(responseType)
                                  \o " is not supported in the browser")))
    ELSE request(call, "/innovation-service/result/" \o ToStr(filename),
                 O(<< <<"method", S("GET")>>,
                      <<"responseType", getResultFileType(responseType)>> >>))

getResultFile(s, c, filename, responseType) ==
    /\ CanInvoke(s, c)
    /\ Run(s, getResultFileBody(NewCall(c, "getResultFile", <<filename, responseType>>),
                                filename, responseType))

\* the node variant calls getResultFile(filename, "stream"); the browser variant throws
saveResultFile(s, c, filename, outputFilename) ==
    /\ CanInvoke(s, c)
    /\ LET call == NewCall(c, "saveResultFile", <<filename, outputFilename>>)
       IN  IF variant[c] = "node"
           THEN Run(s, getResultFileBody(call, filename, S("stream")))
           ELSE Run(s, Settle(call,
                    Throw(Err("saveResultFile is only available in Node.js"))))

getWebhooks(s, c) ==
    /\ CanInvoke(s, c)
    /\ Run(s, request(NewCall(c, "getWebhooks", <<>>), "/webhook-url/get-many",
                      O(<< <<"method", S("GET")>> >>)))

\* a mutant of createWebhook: the url is sent under the key url
createWebhook_url(s, c, webhookUrl) ==
    /\ CanInvoke(s, c)
    /\ Run(s, request(NewCall(c, "createWebhook", <<webhookUrl>>), "/webhook-url",
                      O(<< <<"method", S("POST")>>,
                           <<"data", O(<< <<"url", webhookUrl>> >>)>> >>)))

createWebhook(s, c, webhookUrl) ==
    /\ CanInvoke(s, c)
    /\ Run(s, request(NewCall(c, "createWebhook", <<webhookUrl>>), "/webhook-url",
                      O(<< <<"method", S("POST")>>,
                           <<"data", O(<< <<"webhookUrl", webhookUrl>> >>)>> >>)))

updateWebhook(s, c, id, webhookUrl) ==
    /\ CanInvoke(s, c)
    /\ Run(s, request(NewCall(c, "updateWebhook", <<id, webhookUrl>>),
                      "/webhook-url/" \o ToStr(id),
                      O(<< <<"method", S("PUT")>>,
                           <<"data", O(<< <<"webhookUrl", webhookUrl>> >>)>> >>)))

deleteWebhook(s, c, id) ==
    /\ CanInvoke(s, c)
    /\ Run(s, request(NewCall(c, "deleteWebhook", <<id>>),
                      "/webhook-url/" \o ToStr(id),
                      O(<< <<"method", S("DELETE")>> >>)))

testWebhook(s, c, id) ==
    /\ CanInvoke(s, c)
    /\ Run(s, request(NewCall(c, "testWebhook", <<id>>),
                      "/webhook-url/test/" \o ToStr(id),
                      O(<< <<"method", S("POST")>> >>)))

----------------------------------------------------------------------------
(* The continuations: what runs when an awaited promise settles *)

FsErrors == { [t |-> "SystemError", v |-> "ENOENT: no such file or directory"] }
FileContents == {JpegBytes, TextBytes}

\* readFile resolved with `bytes`: createJobFromPath goes on to createJobFromBuffer
readFileResolves(s, bytes) ==
    /\ calls[s].pc = "read"
    /\ LET call == calls[s]
           filePath == Get(call.locals, "filePath")
       IN  Run(s, createJobFromBufferStart(call, [t |-> "Buffer", v |-> bytes],
                                           LastSegment(filePath),
                                           Get(call.locals, "options")))

\* readFile rejected: the error leaves createJobFromPath as it is
readFileRejects(s, err) ==
    /\ calls[s].pc = "read"
    /\ Run(s, Settle(calls[s], Throw(err)))

\* fileTypeFromBuffer resolved: createJobFromBuffer builds the Blob and calls createJob
fileTypeResolves(s) ==
    /\ calls[s].pc = "sniff"
    /\ LET call == calls[s]
           buffer == Get(call.locals, "buffer")
           type == fileTypeFromBuffer(buffer.v)
           fileBlob == Blob(buffer.v, IF type = Undefined THEN Undefined
                                      ELSE Get(type, "mime"))
       IN  Run(s, createJob(call, O(<< <<"data", fileBlob>>,
                                       <<"filename", Get(call.locals, "filename")>>,
                                       <<"options", Get(call.locals, "options")>> >>)))

\* a mutant of requestRejected: the request is issued again after a failure
requestRejected_retry(call, err) ==
    [call EXCEPT !.res = err, !.nreq = @ + 1]

\* the transport raised `err`: no handler catches it, the invocation rejects with it
requestRejected(call, err) ==
    [Settle(call, Throw(err)) EXCEPT !.res = err]

\* the registry and the client's webhook calls in the runs that have no server
NoWebhooks == [registry |-> <<>>, minted |-> 0, last |-> [method |-> "none"],
               sweep |-> FALSE, pending |-> {}]

\* the history in the runs that record none
NoHistory == [on |-> FALSE, race |-> FALSE, log |-> <<>>, late |-> <<>>, order |-> <<>>]

\* the history of the bodies of the successful login and refresh responses keeps
\* the last two, the latest last; it is kept only in the runs that record it
Remember(h, entry) ==
    IF ~h.on THEN h
    ELSE [h EXCEPT !.log = IF Len(@) < 2 THEN Append(@, entry) ELSE <<@[2], entry>>]

\* the successful response to the login or refresh of slot s has arrived: the
\* history notes whether a request issued after this one was answered before
\* it (late), and marks the older requests still in flight as passed by it
Arrived(h, s) ==
    IF ~h.race THEN h
    ELSE LET passed == \E i \in 1..Len(h.order) :
                          h.order[i].slot = s /\ h.order[i].passed
             at == IF \E i \in 1..Len(h.order) : h.order[i].slot = s
                   THEN CHOOSE i \in 1..Len(h.order) : h.order[i].slot = s
                   ELSE 0
             marked == [i \in 1..Len(h.order) |->
                          IF i < at THEN [h.order[i] EXCEPT !.passed = TRUE]
                          ELSE h.order[i]]
         IN  [h EXCEPT !.late = IF Len(@) < 2 THEN Append(@, passed)
                                ELSE <<@[2], passed>>,
                       !.order = Without(marked, s)]

\* responseData.pipe(createWriteStream(outputFilename)): the write stream is
\* created, and the chunks of responseData wait to be written.  The file is
\* opened (created or truncated) later, by the runtime, and the chunks are
\* written later still; until it is opened the file is what it was
createWriteStream(file, responseData) ==
    [state |-> "opening", data |-> file.data, rest |-> responseData.v]

\* the code of a public method that follows `await this.request(...)`, given
\* the outcome `out` of request: what the method resolves or rejects with
afterRequest(call, out) ==
    IF out.kind = "throw" THEN out
    ELSE IF call.method = "saveResultFile"
         THEN IF out.value.t = "Stream"
              THEN Return(Undefined)
              ELSE Throw([t |-> "TypeError", v |-> "responseData.pipe is not a function"])
         ELSE out

\* a mutant of thisLoginData: the Session is one field shared by the instances
thisLoginData_static(ld, c, data) == [x \in DOMAIN ld |-> data]

\* this.loginData = ...: the field of the instance c alone is assigned
thisLoginData(ld, c, data) == [ld EXCEPT ![c] = data]

\* a mutant of savesSession: every method saves what it received
savesSession_every(call, out) ==
    /\ out.kind = "return"
    /\ ~InstanceOfError(out.value)

\* a mutant of savesSession: refresh does not save what it received
savesSession_loginOnly(call, out) ==
    /\ call.method = "login"
    /\ out.kind = "return"
    /\ ~InstanceOfError(out.value)

\* the method saves the data that request returned as the Session
savesSession(call, out) ==
    /\ call.method \in {"login", "refresh"}
    /\ out.kind = "return"
    /\ ~InstanceOfError(out.value)

\* the response `res` arrives for the request of slot s: request goes on from its
\* await, and the method that called it goes on from its own
responseArrives(s, res) ==
    /\ calls[s].pc = "await"
    /\ LET call == calls[s]
           c == call.client
           out == requestOutcome(call.path.v, res)
           piped == call.method = "saveResultFile" /\ out.kind = "return"
                    /\ out.value.t = "Stream"
       IN  /\ calls' = [calls EXCEPT ![s] =
                          [Settle(call, afterRequest(call, out)) EXCEPT
                              !.res = res,
                              !.writes = IF piped THEN @ + 1 ELSE @]]
           /\ loginData' = IF savesSession(call, out)
                           THEN thisLoginData(loginData, c,
                                              saveLoginData(loginData[c], out.value))
                           ELSE loginData
           /\ authLog' = IF call.method \in {"login", "refresh"} /\ res.status < 300
                         THEN Arrived(Remember(authLog, [method |-> call.method,
                                                         data |-> res.data]), s)
                         ELSE Tracked(authLog, s, Settle(call, afterRequest(call, out)))
           /\ disk' = IF piped
                       THEN [disk EXCEPT ![call.args[2]] = createWriteStream(@, out.value)]
                       ELSE disk
    /\ UNCHANGED <<window, config, form>>

\* the transport handed back the response `res` to the request of slot s
requestResolves(s, res) ==
    /\ responseArrives(s, res)
    /\ UNCHANGED webhooks

\* the transport raised `err` for the request of slot s
requestRejects(s, err) ==
    /\ calls[s].pc = "await"
    /\ Run(s, requestRejected(calls[s], err))

\* the caller has received the outcome of the invocation: the slot is free again
callerReceives(s) ==
    /\ calls[s].pc = "done"
    /\ Run(s, IdleCall)

\* the runtime defines or removes the global `window`
windowChanges ==
    /\ window' = ~window
    /\ UNCHANGED <<config, loginData, calls, authLog, form, webhooks, disk>>

----------------------------------------------------------------------------
(* The runs of one client *)

\* the arguments the methods are invoked with
Credentials == {<<S("cid"), S("sid")>>}
JobIds == {S("job1")}
WebhookIds == {S("wh1")}
WebhookUrls == {S("https://hook.example/a")}
ResultNames == {S("out.jpeg")}
OutputNames == {S("./face_anonymized.jpg")}
MediaPaths == {FilePath(<<".", "images", "face.jpg">>)}
MediaNames == {S("upload.bin")}
Buffers == {[t |-> "Buffer", v |-> JpegBytes]}
Files == {File("photo.jpg", JpegBytes, S("text/plain"))}
\* a File is a Blob: createJobFromBlob accepts one as its blob
Blobs == {Blob(TextBytes, S("image/png")), File("scan.png", JpegBytes, S("image/png"))}

\* the files before anything is saved: none exists
NoFiles == [o \in OutputNames |-> [state |-> "absent", data |-> <<>>, rest |-> <<>>]]

\* the runtime has opened the file o for the write stream: it is created, or
\* truncated when it exists
fileOpens(o) ==
    /\ disk[o].state = "opening"
    /\ disk' = [disk EXCEPT ![o] = [state |-> IF @.rest = <<>> THEN "closed" ELSE "open",
                                     data |-> <<>>, rest |-> @.rest]]
    /\ UNCHANGED <<window, config, loginData, calls, authLog, form, webhooks>>

\* the runtime has written the next chunk of the piped stream to the file o;
\* the write stream ends with the last chunk
chunkWritten(o) ==
    /\ disk[o].state = "open"
    /\ disk' = [disk EXCEPT ![o] =
                  [state |-> IF Len(@.rest) = 1 THEN "closed" ELSE "open",
                   data |-> Append(@.data, Head(@.rest)),
                   rest |-> Tail(@.rest)]]
    /\ UNCHANGED <<window, config, loginData, calls, authLog, form, webhooks>>

\* typeof window === "undefined", evaluated by the constructor
typeofWindowUndefined == ~window

\* the instances as the constructor leaves them: `only` are constructed, with
\* any base configuration, in any build and any runtime
Constructed(only) ==
    /\ window \in BOOLEAN
    /\ built = [c \in Clients |-> c \in only]
    /\ variant \in [Clients -> Variants]
    /\ \A c \in Clients \ only : variant[c] = "node"
    /\ isNode = [c \in Clients |-> typeofWindowUndefined]
    /\ fetchInit \in [Clients -> FetchInits]
    /\ \A c \in Clients \ only : fetchInit[c] = Undefined
    /\ loginData = [c \in Clients |-> EmptyObj]

\* one client, in any build, runtime and base configuration, whose methods
\* are invoked one after the other
Init ==
    /\ Constructed({"c1"})
    /\ calls = <<IdleCall>>
    /\ authLog = NoHistory
    /\ form = Undefined
    /\ webhooks = NoWebhooks
    /\ disk = NoFiles

Next ==
    \/ \E s \in Slots, c \in Clients, cred \in Credentials :
          login(s, c, cred[1], cred[2])
    \/ \E s \in Slots, c \in Clients : refresh(s, c)
    \/ \E s \in Slots, c \in Clients, p \in MediaPaths, o \in CallOptions :
          createJobFromPath(s, c, p, o)
    \/ \E s \in Slots, c \in Clients, b \in Buffers, n \in MediaNames, o \in CallOptions :
          createJobFromBuffer(s, c, b, n, o)
    \/ \E s \in Slots, c \in Clients, f \in Files, o \in CallOptions :
          createJobFromFile(s, c, f, o)
    \/ \E s \in Slots, c \in Clients, b \in Blobs, n \in MediaNames, o \in CallOptions :
          createJobFromBlob(s, c, b, n, o)
    \/ \E s \in Slots, c \in Clients, j \in JobIds : getJobStatus(s, c, j)
    \/ \E s \in Slots, c \in Clients, f \in ResultNames, rt \in ResponseTypes :
          getResultFile(s, c, f, rt)
    \/ \E s \in Slots, c \in Clients, f \in ResultNames, o \in OutputNames :
          saveResultFile(s, c, f, o)
    \/ \E s \in Slots, c \in Clients : getWebhooks(s, c)
    \/ \E s \in Slots, c \in Clients, u \in WebhookUrls : createWebhook(s, c, u)
    \/ \E s \in Slots, c \in Clients, i \in WebhookIds, u \in WebhookUrls :
          updateWebhook(s, c, i, u)
    \/ \E s \in Slots, c \in Clients, i \in WebhookIds : deleteWebhook(s, c, i)
    \/ \E s \in Slots, c \in Clients, i \in WebhookIds : testWebhook(s, c, i)
    \/ \E s \in Slots, bytes \in FileContents : readFileResolves(s, bytes)
    \/ \E s \in Slots, err \in FsErrors : readFileRejects(s, err)
    \/ \E s \in Slots : fileTypeResolves(s)
    \/ \E s \in Slots, res \in Responses : requestResolves(s, res)
    \/ \E s \in Slots, err \in TransportErrors : requestRejects(s, err)
    \/ \E s \in Slots : callerReceives(s)
    \/ \E o \in OutputNames : fileOpens(o)
    \/ \E o \in OutputNames : chunkWritten(o)
    \/ windowChanges

Spec == Init /\ [][Next]_vars

----------------------------------------------------------------------------
(* The runs of the Session: up to MaxInFlight invocations of one client of   *)
(* the node build are in flight at the same time                            *)

\* the responses and the errors of the transport in these runs
SessionResponses ==
    { r \in Responses : r.data \in {TripleA, PartialBody} \/ r.status = 300 }
SessionErrors == { e \in TransportErrors : e.v = "Network Error" }

SessionInit ==
    /\ Constructed({"c1"})
    /\ ~window
    /\ variant["c1"] = "node"
    /\ fetchInit["c1"] = Undefined
    /\ calls = [s \in 1..MaxInFlight |-> IdleCall]
    /\ authLog = [NoHistory EXCEPT !.on = TRUE]
    /\ form = Undefined
    /\ webhooks = NoWebhooks
    /\ disk = NoFiles

SessionNext ==
    \/ \E s \in Slots, cred \in Credentials : login(s, "c1", cred[1], cred[2])
    \/ \E s \in Slots : refresh(s, "c1")
    \/ \E s \in Slots, j \in JobIds : getJobStatus(s, "c1", j)
    \/ \E s \in Slots, res \in SessionResponses : requestResolves(s, res)
    \/ \E s \in Slots, err \in SessionErrors : requestRejects(s, err)
    \/ \E s \in Slots : callerReceives(s)

SpecSession == SessionInit /\ [][SessionNext]_vars

----------------------------------------------------------------------------
(* The races of the Session: logins and refreshes of one client, up to       *)
(* MaxInFlight of them in flight at the same time, answered in any order;    *)
(* the history records the order of issue                                    *)

RaceInit ==
    /\ Constructed({"c1"})
    /\ ~window
    /\ variant["c1"] = "node"
    /\ fetchInit["c1"] = Undefined
    /\ calls = [s \in 1..MaxInFlight |-> IdleCall]
    /\ authLog = [NoHistory EXCEPT !.on = TRUE, !.race = TRUE]
    /\ form = Undefined
    /\ webhooks = NoWebhooks
    /\ disk = NoFiles

RaceNext ==
    \/ \E s \in Slots, cred \in Credentials : login(s, "c1", cred[1], cred[2])
    \/ \E s \in Slots : refresh(s, "c1")
    \/ \E s \in Slots, res \in SessionResponses : requestResolves(s, res)
    \/ \E s \in Slots, err \in SessionErrors : requestRejects(s, err)
    \/ \E s \in Slots : callerReceives(s)

SpecRace == RaceInit /\ [][RaceNext]_vars

----------------------------------------------------------------------------
(* The runs of two clients: both instances are constructed, and the methods  *)
(* of the one and of the other are invoked and answered in any order         *)

PairInit ==
    /\ Constructed(Clients)
    /\ ~window
    /\ \A c \in Clients : variant[c] = "node" /\ fetchInit[c] = Undefined
    /\ calls = <<IdleCall, IdleCall>>
    /\ authLog = NoHistory
    /\ form = Undefined
    /\ webhooks = NoWebhooks
    /\ disk = NoFiles

PairNext ==
    \/ \E s \in Slots, c \in Clients, cred \in Credentials :
          login(s, c, cred[1], cred[2])
    \/ \E s \in Slots, c \in Clients : refresh(s, c)
    \/ \E s \in Slots, c \in Clients, j \in JobIds : getJobStatus(s, c, j)
    \/ \E s \in Slots, res \in SessionResponses : requestResolves(s, res)
    \/ \E s \in Slots, err \in SessionErrors : requestRejects(s, err)
    \/ \E s \in Slots : callerReceives(s)

SpecPair == PairInit /\ [][PairNext]_vars

----------------------------------------------------------------------------
(* The runs of the jobs: two invocations of one client of the node build may *)
(* be in flight at the same time, of any public method; the server answers   *)
(* with a token triple, with the status of a job, or with an error           *)

JobStarted == O(<< <<"status", S("Started")>> >>)
JobSucceeded == O(<< <<"status", S("Succeeded")>>, <<"output_media", S("out.jpeg")>> >>)

JobResponses ==
    { [status |-> 200, statusText |-> "OK", data |-> TripleA],
      [status |-> 200, statusText |-> "OK", data |-> JobStarted],
      [status |-> 200, statusText |-> "OK", data |-> JobSucceeded],
      [status |-> 404, statusText |-> "Not Found", data |-> ErrorBody] }

JobsInit ==
    /\ Constructed({"c1"})
    /\ ~window
    /\ variant["c1"] = "node"
    /\ fetchInit["c1"] = Undefined
    /\ calls = <<IdleCall, IdleCall>>
    /\ authLog = NoHistory
    /\ form = Undefined
    /\ webhooks = NoWebhooks
    /\ disk = NoFiles

JobsNext ==
    \/ \E s \in Slots, cred \in Credentials : login(s, "c1", cred[1], cred[2])
    \/ \E s \in Slots : refresh(s, "c1")
    \/ \E s \in Slots, p \in MediaPaths : createJobFromPath(s, "c1", p, Undefined)
    \/ \E s \in Slots, b \in Buffers, n \in MediaNames :
          createJobFromBuffer(s, "c1", b, n, SomeOptions)
    \/ \E s \in Slots, f \in Files : createJobFromFile(s, "c1", f, Undefined)
    \/ \E s \in Slots, n \in MediaNames :
          createJobFromBlob(s, "c1", Blob(TextBytes, S("image/png")), n, Undefined)
    \/ \E s \in Slots, j \in JobIds : getJobStatus(s, "c1", j)
    \/ \E s \in Slots, f \in ResultNames : getResultFile(s, "c1", f, S("blob"))
    \/ \E s \in Slots, f \in ResultNames, o \in OutputNames :
          saveResultFile(s, "c1", f, o)
    \/ \E s \in Slots : getWebhooks(s, "c1")
    \/ \E s \in Slots, u \in WebhookUrls : createWebhook(s, "c1", u)
    \/ \E s \in Slots, i \in WebhookIds, u \in WebhookUrls :
          updateWebhook(s, "c1", i, u)
    \/ \E s \in Slots, i \in WebhookIds : deleteWebhook(s, "c1", i)
    \/ \E s \in Slots, i \in WebhookIds : testWebhook(s, "c1", i)
    \/ \E s \in Slots : readFileResolves(s, JpegBytes)
    \/ \E s \in Slots, err \in FsErrors : readFileRejects(s, err)
    \/ \E s \in Slots : fileTypeResolves(s)
    \/ \E s \in Slots, res \in JobResponses : requestResolves(s, res)
    \/ \E s \in Slots, err \in SessionErrors : requestRejects(s, err)
    \/ \E s \in Slots : callerReceives(s)

SpecJobs == JobsInit /\ [][JobsNext]_vars

----------------------------------------------------------------------------
(* The server of the webhook routes: it keeps a registry of webhook records  *)
(* and answers each request from it, at the moment it answers                *)

\* the server mints at most MaxWebhooks records in a run
MaxWebhooks == 2

HookId(n) == S("wh" \o ToString(n))
HookIds == { HookId(n) : n \in 1..MaxWebhooks }
HookUrls == WebhookUrls \cup {S("https://hook.example/a-2")}

\* a JSON array
Array(seq) == [t |-> "array", v |-> seq]

HookRecord(uuid, url) ==
    O(<< <<"uuid", uuid>>, <<"webhookUrl", url>>, <<"active", B(TRUE)>> >>)

Ok(data) == [status |-> 200, statusText |-> "OK", data |-> data]
NotFound == [status |-> 404, statusText |-> "Not Found", data |-> ErrorBody]

\* the position in the registry of the record that the url names after
\* `prefix`, 0 when there is none
Named(registry, url, prefix) ==
    IF \E i \in 1..Len(registry) : url = S(prefix \o Get(registry[i], "uuid").v)
    THEN CHOOSE i \in 1..Len(registry) : url = S(prefix \o Get(registry[i], "uuid").v)
    ELSE 0

\* the registry without its i-th record
Removed(registry, i) ==
    [j \in 1..(Len(registry) - 1) |-> IF j < i THEN registry[j] ELSE registry[j + 1]]

\* what the server does with the request req: its registry afterwards, the
\* number of records it has minted, and its response
ServerAnswer(w, req) ==
    LET method == Get(req, "method")
        url == Get(req, "url")
        data == Get(req, "data")
        same == [registry |-> w.registry, minted |-> w.minted]
        one == Named(w.registry, url, "/webhook-url/")
        tested == Named(w.registry, url, "/webhook-url/test/")
    IN  CASE method = S("POST") /\ url = S("/webhook-url") ->
                LET rec == HookRecord(HookId(w.minted + 1), Get(data, "webhookUrl"))
                IN  [registry |-> Append(w.registry, rec), minted |-> w.minted + 1,
                     res |-> Ok(rec)]
          [] method = S("GET") /\ url = S("/webhook-url/get-many") ->
                same @@ [res |-> Ok(Array(w.registry))]
          [] method = S("PUT") /\ one > 0 ->
                LET rec == Put(w.registry[one], "webhookUrl", Get(data, "webhookUrl"))
                IN  [registry |-> [w.registry EXCEPT ![one] = rec], minted |-> w.minted,
                     res |-> Ok(rec)]
          [] method = S("DELETE") /\ one > 0 ->
                [registry |-> Removed(w.registry, one), minted |-> w.minted,
                 res |-> Ok(w.registry[one])]
          [] method = S("POST") /\ tested > 0 ->
                same @@ [res |-> Ok(w.registry[tested])]
          [] OTHER -> same @@ [res |-> NotFound]

\* what the client has learnt from the answer `res` to its call: its last
\* successful webhook call, and the records of the last list that it has not
\* deleted since (sweep: no record has been created since that list)
Observed(w, call, res) ==
    IF res.status >= 300 THEN w
    ELSE CASE call.method = "createWebhook" ->
                [w EXCEPT !.last = [method |-> "createWebhook", arg |-> call.args[1]],
                          !.sweep = FALSE, !.pending = {}]
           [] call.method = "updateWebhook" ->
                [w EXCEPT !.last = [method |-> "updateWebhook", arg |-> call.args[1]]]
           [] call.method = "deleteWebhook" ->
                [w EXCEPT !.last = [method |-> "deleteWebhook", arg |-> call.args[1]],
                          !.pending = @ \ {call.args[1]}]
           [] call.method = "getWebhooks" ->
                [w EXCEPT !.last = [method |-> "getWebhooks", after |-> w.last.method,
                                    swept |-> w.sweep /\ w.pending = {}],
                          !.sweep = TRUE,
                          !.pending = { Get(res.data.v[i], "uuid") :
                                          i \in 1..Len(res.data.v) }]
           [] OTHER -> w

\* the server answers the request of slot s
serverAnswers(s) ==
    /\ calls[s].pc = "await"
    /\ LET ans == ServerAnswer(webhooks, calls[s].req)
       IN  /\ responseArrives(s, ans.res)
           /\ webhooks' = Observed([webhooks EXCEPT !.registry = ans.registry,
                                                    !.minted = ans.minted],
                                   calls[s], ans.res)

WebhooksInit ==
    /\ Constructed({"c1"})
    /\ ~window
    /\ variant["c1"] = "node"
    /\ fetchInit["c1"] = Undefined
    /\ calls = <<IdleCall>>
    /\ authLog = NoHistory
    /\ form = Undefined
    /\ webhooks = NoWebhooks
    /\ disk = NoFiles

WebhooksNext ==
    \/ \E s \in Slots, u \in HookUrls :
          webhooks.minted < MaxWebhooks /\ createWebhook(s, "c1", u)
    \/ \E s \in Slots : getWebhooks(s, "c1")
    \/ \E s \in Slots, i \in HookIds, u \in HookUrls : updateWebhook(s, "c1", i, u)
    \/ \E s \in Slots, i \in HookIds : deleteWebhook(s, "c1", i)
    \/ \E s \in Slots, i \in HookIds : testWebhook(s, "c1", i)
    \/ \E s \in Slots : serverAnswers(s)
    \/ \E s \in Slots, err \in SessionErrors : requestRejects(s, err)
    \/ \E s \in Slots : callerReceives(s)

SpecWebhooks == WebhooksInit /\ [][WebhooksNext]_vars


----------------------------------------------------------------------------
(* The runs of the options encoder: createJob builds its form from any      *)
(* AnonymizationOptions object                                              *)

\* marks a key that the object does not have
Absent == [t |-> "absent"]
\* the object of the pairs whose value is not Absent
MkObj(pairs) == O(SelectSeq(pairs, LAMBDA p : p[2] # Absent))

FlagValues == {Absent, Undefined, Null, B(TRUE), B(FALSE)}
BlurTypeValues ==
    {Absent, Undefined, Null} \cup
    { MkObj(<< <<"anonymization_type", a>>, <<"hex_color", h>>, <<"num_pixels", n>> >>) :
        a \in {Absent, Undefined, S("pixelate")},
        h \in {Absent, Null, S("")},
        n \in {Absent, N(0), N(10)} }
IncludedAreaValues ==
    {Absent, O(<< <<"top", N(0)>>, <<"bottom", N(10)>>,
                  <<"left", N(0)>>, <<"right", N(10)>> >>)}

OptionObjects ==
    {Undefined} \cup
    { MkObj(<< <<"activation_faces_blur", f>>, <<"included_area", ia>>,
               <<"blur_type", bt>> >>) :
        f \in FlagValues, ia \in IncludedAreaValues, bt \in BlurTypeValues } \cup
    { MkObj(<< <<"blur_type", bt>>, <<"activation_faces_blur", f>> >>) :
        f \in FlagValues, bt \in BlurTypeValues }

\* createJob is about to run with the arguments form.args
EncoderInit ==
    /\ Constructed({"c1"})
    /\ ~window
    /\ variant["c1"] = "node"
    /\ fetchInit["c1"] = Undefined
    /\ calls = <<IdleCall>>
    /\ authLog = NoHistory
    /\ form \in { [args |-> O(<< <<"data", b>>, <<"filename", n>>, <<"options", o>> >>),
                   data |-> Undefined] :
                   b \in Blobs, n \in MediaNames, o \in OptionObjects }
    /\ webhooks = NoWebhooks
    /\ disk = NoFiles

\* createJob builds its FormData: the media, then the encoded options
createJobBuildsForm ==
    /\ form.data = Undefined
    /\ form' = [form EXCEPT !.data = createJobForm(form.args)]
    /\ UNCHANGED <<window, config, loginData, calls, authLog, webhooks, disk>>

EncoderNext == createJobBuildsForm

SpecEncoder == EncoderInit /\ [][EncoderNext]_vars


----------------------------------------------------------------------------
(* Vocabulary of the properties *)

\* x is a response that the transport handed back (not an error it raised)
IsResponse(x) == "status" \in DOMAIN x

\* this step settles the request of slot s
SettlesIn(s) == calls[s].pc = "await" /\ calls'[s].pc = "done"

\* this step hands a request of slot s to the transport
IssuesIn(s) == calls'[s].nreq > calls[s].nreq

AuthMethods == {"login", "refresh"}

\* the expected bearer header for the Session ld
BearerOf(ld) == S("Bearer " \o ToStr(Get(ld, "token")))

----------------------------------------------------------------------------
(* C1: when a login or refresh request succeeds (the transport hands back a  *)
(* response whose status is below 300), the Session of the client becomes    *)
(* exactly the body of that response, nothing of the previous Session is     *)
(* kept, and the same body is returned to the caller.                        *)
C1_SessionReplacedOnSuccess ==
    [][\A s \in Slots :
          (/\ SettlesIn(s)
           /\ calls[s].method \in AuthMethods
           /\ IsResponse(calls'[s].res)
           /\ calls'[s].res.status < 300)
          => /\ loginData'[calls[s].client] = calls'[s].res.data
             /\ calls'[s].result = Return(calls'[s].res.data)]_vars

\* a refresh has replaced the Session TripleA by a body that lacks two of the
\* three fields, and returned that body
C1_Witness ==
    \E s \in Slots :
        /\ calls[s].pc = "done"
        /\ calls[s].method = "refresh"
        /\ IsResponse(calls[s].res)
        /\ calls[s].res.data = PartialBody
        /\ calls[s].result = Return(PartialBody)
        /\ loginData["c1"] = PartialBody
        /\ Len(authLog.log) = 2
        /\ authLog.log[1].data = TripleA

----------------------------------------------------------------------------
(* C2: when a login or refresh request fails (the transport raises an error, *)
(* or hands back a status of 300 or more), the Session is what it was        *)
(* before, field for field, and the call ends with an error for the caller.  *)
C2_SessionUntouchedOnFailure ==
    [][\A s \in Slots :
          (/\ SettlesIn(s)
           /\ calls[s].method \in AuthMethods
           /\ (IsResponse(calls'[s].res) => calls'[s].res.status >= 300))
          => /\ loginData' = loginData
             /\ calls'[s].result.kind = "throw"]_vars

\* a refresh was rejected with status 300 and a login failed in the transport,
\* and the Session is still the triple of the earlier login
C2_Witness ==
    /\ loginData["c1"] = TripleA
    /\ \E s \in Slots :
          /\ calls[s].pc = "done"
          /\ calls[s].method = "refresh"
          /\ IsResponse(calls[s].res)
          /\ calls[s].res.status = 300
          /\ calls[s].result.kind = "throw"
    /\ \E s \in Slots :
          /\ calls[s].pc = "done"
          /\ calls[s].method = "login"
          /\ ~IsResponse(calls[s].res)
          /\ calls[s].result = Throw(calls[s].res)


----------------------------------------------------------------------------
(* C3: every request that a method issues for a route other than /login      *)
(* carries the header Authorization: Bearer <token>, with the token of the   *)
(* Session the client holds when the request is issued, and the request that *)
(* login issues for /login carries no Authorization header.  The route is    *)
(* the path the method passes to the pipeline.                               *)
C3_BearerOnAllButLogin ==
    [][\A s \in Slots :
          IssuesIn(s) =>
             LET call == calls'[s]
                 headers == Get(call.req, "headers")
             IN  IF call.path = S("/login")
                 THEN ~Has(headers, "Authorization")
                 ELSE Get(headers, "Authorization")
                          = BearerOf(loginData[call.client])]_vars

\* a job is being created with the token of the Session TripleA while the base
\* configuration carries an Authorization header of its own
C3_Witness ==
    \E s \in Slots :
        /\ calls[s].pc = "await"
        /\ calls[s].method = "createJobFromPath"
        /\ Has(fetchInit[calls[s].client], "headers")
        /\ loginData[calls[s].client] = TripleA
        /\ Get(Get(calls[s].req, "headers"), "Authorization") = S("Bearer tokA")

----------------------------------------------------------------------------
(* C4: once the last two successful authentications were a login and then a  *)
(* refresh that returned another token pair, every request issued afterwards *)
(* carries the token returned by the refresh, and neither the token nor the  *)
(* refresh token returned by the login is attached to it.                    *)
C4_RefreshedTokenAttached ==
    [][\A s \in Slots :
          (/\ IssuesIn(s)
           /\ calls'[s].path # S("/login")
           /\ Len(authLog.log) = 2
           /\ authLog.log[1].method = "login"
           /\ authLog.log[2].method = "refresh")
          => LET byLogin == authLog.log[1].data
                 byRefresh == authLog.log[2].data
                 auth == Get(Get(calls'[s].req, "headers"), "Authorization")
                 sent == Get(Get(calls'[s].req, "data"), "refreshToken")
             IN  /\ auth = BearerOf(byRefresh)
                 /\ Get(byLogin, "token") # Get(byRefresh, "token")
                       => auth # BearerOf(byLogin)
                 /\ calls'[s].method = "refresh"
                       => /\ sent = Get(byRefresh, "refreshToken")
                          /\ Get(byLogin, "refreshToken") # Get(byRefresh, "refreshToken")
                                => sent # Get(byLogin, "refreshToken")]_vars

\* after a login that returned TripleA and a refresh that returned the token
\* tokC, a status request and a second refresh are in flight with tokC
C4_Witness ==
    /\ Len(authLog.log) = 2
    /\ authLog.log[1] = [method |-> "login", data |-> TripleA]
    /\ authLog.log[2] = [method |-> "refresh", data |-> PartialBody]
    /\ \E s \in Slots :
          /\ calls[s].pc = "await"
          /\ calls[s].method = "getJobStatus"
          /\ Get(Get(calls[s].req, "headers"), "Authorization") = S("Bearer tokC")
    /\ \E s \in Slots :
          /\ calls[s].pc = "await"
          /\ calls[s].method = "refresh"
          /\ Get(Get(calls[s].req, "headers"), "Authorization") = S("Bearer tokC")
          /\ Get(Get(calls[s].req, "data"), "refreshToken") = Undefined

----------------------------------------------------------------------------
(* C5: refresh always issues one request, POST for the route /token, whose   *)
(* body is {refreshToken} with the refresh token the Session holds when      *)
(* refresh is called; when no login has succeeded yet the refresh token sent *)
(* is undefined, and refresh never fails locally.                            *)
C5_RefreshSendsCurrentRefreshToken ==
    [][\A s \in Slots :
          (calls[s].pc = "idle" /\ calls'[s].pc # "idle" /\ calls'[s].method = "refresh")
          => LET call == calls'[s]
                 sent == Get(call.req, "data")
             IN  /\ call.pc = "await"
                 /\ call.nreq = 1
                 /\ call.path = S("/token")
                 /\ Get(call.req, "method") = S("POST")
                 /\ KeySet(sent) = {"refreshToken"}
                 /\ Get(sent, "refreshToken")
                       = Get(loginData[call.client], "refreshToken")
                 /\ loginData[call.client] = EmptyObj
                       => Get(sent, "refreshToken") = Undefined]_vars

\* a refresh is in flight with an undefined refresh token: no login has succeeded
C5_Witness ==
    \E s \in Slots :
        /\ calls[s].pc = "await"
        /\ calls[s].method = "refresh"
        /\ loginData[calls[s].client] = EmptyObj
        /\ Get(Get(calls[s].req, "data"), "refreshToken") = Undefined
        /\ Get(Get(calls[s].req, "headers"), "Authorization") = S("Bearer undefined")


----------------------------------------------------------------------------
(* The generic error of the pipeline for the invocation `call` and the       *)
(* response res: "Error calling <path>: <statusText>"                        *)
GenericError(call, res) ==
    Err("Error calling " \o call.path.v \o ": " \o res.statusText)

\* the invocation has settled on a response that the transport handed back
SettledOnResponse(call) == call.pc = "done" /\ IsResponse(call.res)

\* the outcome that the status code alone decides
DecidedByStatus(call) ==
    IF call.res.status < 300
    THEN call.result = Return(call.res.data)
    ELSE call.result = Throw(GenericError(call, call.res))

----------------------------------------------------------------------------
(* C7: each invocation of a public method issues at most one HTTP request;   *)
(* when the request fails, in the transport or with a status of 300 or more, *)
(* the invocation has issued that one request only and ends with a failure,  *)
(* which is the very error of the transport when the transport raised one.   *)
C7_OneRequestNoRetry ==
    \A s \in Slots :
        LET call == calls[s] IN
        /\ call.nreq <= 1
        /\ (call.pc = "done" /\ call.res # Undefined /\ ~IsResponse(call.res))
              => call.nreq = 1 /\ call.result = Throw(call.res)
        /\ (SettledOnResponse(call) /\ call.res.status >= 300)
              => call.nreq = 1 /\ call.result.kind = "throw"

\* createJobFromPath has ended with the transport's error after its one request
C7_Witness ==
    \E s \in Slots :
        /\ calls[s].pc = "done"
        /\ calls[s].method = "createJobFromPath"
        /\ calls[s].nreq = 1
        /\ calls[s].res = [t |-> "AxiosError", v |-> "Network Error"]
        /\ calls[s].result = Throw(calls[s].res)

----------------------------------------------------------------------------
(* C8, as claimed: in every build, when the capability detected at           *)
(* construction is absent (isNode is false: a global window existed then),   *)
(* createJobFromPath and saveResultFile fail before any request is issued    *)
(* and before any file is read or written, whatever the runtime has become   *)
(* since the construction.                                                   *)
FilesystemMethods == {"createJobFromPath", "saveResultFile"}

C8_AsClaimed ==
    \A s \in Slots :
        LET call == calls[s] IN
        (call.pc # "idle" /\ call.method \in FilesystemMethods
                            /\ ~isNode[call.client]) =>
            /\ call.pc = "done"
            /\ call.result.kind = "throw"
            /\ call.nreq = 0 /\ call.reads = 0 /\ call.writes = 0

----------------------------------------------------------------------------
(* C9: on a client whose construction found a global window (isNode false),  *)
(* getResultFile fails without a request for 'stream' and 'buffer' and       *)
(* issues the GET for 'arraybuffer' and 'blob'; on a client whose            *)
(* construction found none, no representation is rejected locally; and       *)
(* 'buffer' is requested from the transport as 'arraybuffer'.                *)
C9_ResultRepresentations ==
    \A s \in Slots :
        LET call == calls[s]
            rt == call.args[2]
        IN  (call.pc # "idle" /\ call.method = "getResultFile" /\ rt # Undefined) =>
                IF ~isNode[call.client] /\ rt \in {S("stream"), S("buffer")}
                THEN /\ call.pc = "done"
                     /\ call.result.kind = "throw"
                     /\ call.nreq = 0
                ELSE /\ call.nreq = 1
                     /\ call.path = S("/innovation-service/result/" \o call.args[1].v)
                     /\ Get(call.req, "method") = S("GET")
                     /\ Get(call.req, "responseType")
                           = (IF rt = S("buffer") THEN S("arraybuffer") ELSE rt)

\* a client constructed in a runtime with a window has rejected 'buffer'
\* without a request, although the window is gone by now
C9_Witness ==
    \E s \in Slots :
        /\ calls[s].pc = "done"
        /\ calls[s].method = "getResultFile"
        /\ calls[s].args[2] = S("buffer")
        /\ ~isNode[calls[s].client]
        /\ ~window
        /\ calls[s].nreq = 0
        /\ calls[s].result = Throw(Err("buffer is not supported in the browser"))

----------------------------------------------------------------------------
(* The leaves of an options object, read off the object itself *)

IsScalar(x) == x.t \in {"string", "number", "boolean"}

\* the defined scalar leaves of the options o, each with its bracketed key
\* path and the text of its value; the options nest one level deep
DefinedLeaves(o) ==
    IF ~IsObj(o) THEN {}
    ELSE { <<o.v[i][1], ToStr(o.v[i][2])>> :
              i \in { n \in 1..Len(o.v) : IsScalar(o.v[n][2]) } }
         \cup
         UNION { LET k == o.v[i][1]
                     sub == o.v[i][2]
                 IN  { <<k \o "[" \o sub.v[j][1] \o "]", ToStr(sub.v[j][2])>> :
                          j \in { n \in 1..Len(sub.v) : IsScalar(sub.v[n][2]) } } :
                 i \in { n \in 1..Len(o.v) : IsObj(o.v[n][2]) } }

\* the fields of the built form that follow the media
OptionFields(fd) == Tail(fd.v)

----------------------------------------------------------------------------
(* C10: for every AnonymizationOptions object, the form fields that the      *)
(* options encoder produces are exactly one field per leaf whose value is    *)
(* defined, named by its bracketed key path (a top-level key as is, a nested *)
(* key as parent[child]) and carrying the text of the value; a field whose   *)
(* value is undefined or null, and a nested object all of whose fields are   *)
(* absent, produce no field.                                                 *)
C10_OneFieldPerDefinedLeaf ==
    (form # Undefined /\ form.data # Undefined) =>
        LET fields == OptionFields(form.data)
            leaves == DefinedLeaves(Get(form.args, "options"))
        IN  /\ form.data.v[1].name = "input_media"
            /\ Len(fields) = Cardinality(leaves)
            /\ { <<fields[i].name, fields[i].value.v>> : i \in 1..Len(fields) } = leaves
            /\ \A i \in 1..Len(fields) : fields[i].value.t = "string"

\* a form has been built from options that hold a top-level false, a nested
\* object with four numbers, and a nested object whose fields are undefined and
\* null: five fields, none for blur_type
C10_Witness ==
    /\ form # Undefined
    /\ form.data # Undefined
    /\ Get(form.args, "options")
         = O(<< <<"activation_faces_blur", B(FALSE)>>,
                <<"included_area", O(<< <<"top", N(0)>>, <<"bottom", N(10)>>,
                                        <<"left", N(0)>>, <<"right", N(10)>> >>)>>,
                <<"blur_type", O(<< <<"anonymization_type", Undefined>>,
                                    <<"hex_color", Null>> >>)>> >>)
    /\ [i \in 1..Len(OptionFields(form.data)) |->
           <<OptionFields(form.data)[i].name, OptionFields(form.data)[i].value>>]
         = << <<"activation_faces_blur", S("false")>>,
              <<"included_area[top]", S("0")>>,
              <<"included_area[bottom]", S("10")>>,
              <<"included_area[left]", S("0")>>,
              <<"included_area[right]", S("10")>> >>

----------------------------------------------------------------------------
(* Vocabulary of the job-creation requests *)

JobMethods ==
    {"createJobFromPath", "createJobFromBuffer", "createJobFromFile", "createJobFromBlob"}

\* the invocation is a job creation that has handed its request to the transport
IssuedJob(call) == call.method \in JobMethods /\ call.nreq = 1

\* the fields of the form that the invocation sent
SentFields(call) == Get(call.req, "data").v

\* the filename that the invocation was given for its media
GivenFilename(call) ==
    CASE call.method = "createJobFromPath" -> LastSegment(call.args[1])
      [] call.method = "createJobFromBuffer" -> call.args[2]
      [] call.method = "createJobFromFile" -> S(call.args[1].v.name)
      [] call.method = "createJobFromBlob" -> call.args[2]

\* the bytes of the media that the invocation sent
SentBytes(call) == SentFields(call)[1].value.v.bytes

\* the content type that the leading bytes of the media announce
DetectedType(bytes) ==
    IF fileTypeFromBuffer(bytes) = Undefined THEN Undefined
    ELSE Get(fileTypeFromBuffer(bytes), "mime")

----------------------------------------------------------------------------
(* C11, as claimed: in every job-creation request the first form field is    *)
(* the media, named input_media, with the File's own name for                *)
(* createJobFromFile, the supplied filename for the buffer and blob          *)
(* variants and the last path segment for createJobFromPath; every other     *)
(* field is an option field (no Blob) and comes after it.                    *)
C11_AsClaimed ==
    \A s \in Slots :
        LET call == calls[s] IN
        IssuedJob(call) =>
            LET fields == SentFields(call) IN
            /\ Len(fields) >= 1
            /\ fields[1].name = "input_media"
            /\ fields[1].value.t \in {"Blob", "File"}
            /\ fields[1].filename = GivenFilename(call)
            /\ \A i \in 2..Len(fields) :
                  fields[i].name # "input_media" /\ fields[i].value.t = "string"

----------------------------------------------------------------------------
(* C12, as claimed: for every job-creation method the content type sent      *)
(* with input_media is the one detected from the leading bytes of the        *)
(* payload, never a type that the caller supplied with the File or Blob.     *)
C12_AsClaimed ==
    \A s \in Slots :
        LET call == calls[s] IN
        IssuedJob(call) =>
            SentFields(call)[1].value.v.type = DetectedType(SentBytes(call))

----------------------------------------------------------------------------
(* C13: when logins and refreshes of one client are in flight at the same    *)
(* time and succeed, the Session is the body of the response that arrived    *)
(* last, whichever request was issued first: nothing orders the responses.   *)
C13_LastResponseWins ==
    authLog.log # <<>> =>
        loginData["c1"] = authLog.log[Len(authLog.log)].data

\* a login was issued, then a refresh; the refresh was answered first with
\* the token tokC and the login last with TripleA: the Session is TripleA, the
\* body of the request that was issued first
C13_Witness ==
    /\ authLog.log = << [method |-> "refresh", data |-> PartialBody],
                        [method |-> "login", data |-> TripleA] >>
    /\ authLog.late = <<FALSE, TRUE>>
    /\ loginData["c1"] = TripleA
    /\ \A s \in Slots : calls[s].pc = "done" /\ calls[s].result.kind = "return"

\* the other order: the login was answered first and the refresh, issued while
\* the login was in flight, last
C13_InOrder ==
    /\ authLog.log = << [method |-> "login", data |-> TripleA],
                        [method |-> "refresh", data |-> PartialBody] >>
    /\ authLog.late = <<FALSE, FALSE>>
    /\ loginData["c1"] = PartialBody
    /\ \E s \in Slots :
          /\ calls[s].method = "refresh" /\ calls[s].pc = "done"
          /\ Get(Get(calls[s].req, "headers"), "Authorization") = S("Bearer undefined")

----------------------------------------------------------------------------
(* C14: in every reachable state, under any interleaving of concurrent       *)
(* logins and refreshes, the Session of the client is either the empty       *)
(* Session it was constructed with, when no login or refresh has succeeded,  *)
(* or exactly the body of one single successful response; it never combines  *)
(* fields of two responses.                                                  *)
SuccessBodies == { r.data : r \in { x \in Responses : x.status < 300 } }

C14_OneSessionNeverMerged ==
    /\ loginData["c1"] \in {EmptyObj} \cup SuccessBodies
    /\ authLog.log = <<>> <=> loginData["c1"] = EmptyObj

\* the login answered with TripleA had been overtaken by a request issued
\* after it; then came the body that holds a token only: the Session holds
\* that token and nothing of TripleA
C14_Witness ==
    /\ authLog.log = << [method |-> "login", data |-> TripleA],
                        [method |-> "login", data |-> PartialBody] >>
    /\ authLog.late = <<TRUE, FALSE>>
    /\ loginData["c1"] = PartialBody
    /\ ~Has(loginData["c1"], "refreshToken")

----------------------------------------------------------------------------
(* C15: no step of an invocation on one client, in any interleaving with     *)
(* the invocations on another client, changes the Session of the other       *)
(* client; and the token a client attaches to a request is the token of its  *)
(* own Session.                                                              *)

\* the client whose invocation takes this step in slot s
Actor(s) == IF calls[s].pc = "idle" THEN calls'[s].client ELSE calls[s].client

C15_InstancesDoNotInterfere ==
    [][\A s \in Slots :
          calls'[s] # calls[s] =>
              /\ \A c \in Clients \ {Actor(s)} : loginData'[c] = loginData[c]
              /\ (IssuesIn(s) /\ calls'[s].path # S("/login")) =>
                    Get(Get(calls'[s].req, "headers"), "Authorization")
                        = BearerOf(loginData[Actor(s)])]_vars

\* c1 has logged in with TripleA; c2, whose Session is still empty, has a
\* request in flight with the token undefined, not with c1's token
C15_Witness ==
    /\ loginData["c1"] = TripleA
    /\ loginData["c2"] = EmptyObj
    /\ \E s \in Slots :
          /\ calls[s].pc = "await"
          /\ calls[s].client = "c2"
          /\ calls[s].method = "getJobStatus"
          /\ Get(Get(calls[s].req, "headers"), "Authorization") = S("Bearer undefined")
    /\ \E s \in Slots :
          /\ calls[s].pc = "done"
          /\ calls[s].client = "c1"
          /\ calls[s].method = "login"
          /\ calls[s].result = Return(TripleA)

----------------------------------------------------------------------------
(* C16: getJobStatus keeps no job state in the client: every call, also a    *)
(* repeated call for the same job id, issues a new GET request and returns   *)
(* the body of the response to that request; and no step of getJobStatus,    *)
(* of a job-creation method, of getResultFile, of saveResultFile or of a     *)
(* webhook method changes the Session or any other field of the client.      *)
C16_NoJobStateNoSessionChange ==
    [][\A s \in Slots :
          calls'[s] # calls[s] =>
              LET was == calls[s]
                  now == calls'[s]
                  method == IF was.pc = "idle" THEN now.method ELSE was.method
              IN  /\ method \notin AuthMethods =>
                        /\ loginData' = loginData
                        /\ <<built, variant, isNode, fetchInit>>'
                              = <<built, variant, isNode, fetchInit>>
                  /\ (was.pc = "idle" /\ now.method = "getJobStatus") =>
                        /\ now.pc = "await" /\ now.nreq = 1
                        /\ Get(now.req, "method") = S("GET")
                        /\ now.path
                             = S("/innovation-service/anonymization?anonymization_job_id="
                                   \o now.args[1].v)
                  /\ (was.method = "getJobStatus" /\ SettlesIn(s)
                        /\ IsResponse(now.res) /\ now.res.status < 300) =>
                        now.result = Return(now.res.data)]_vars

\* after a login, two calls of getJobStatus for the same job have each issued
\* their own request and returned the status of their own response; the
\* Session is still the one the login saved
C16_Witness ==
    /\ loginData["c1"] = TripleA
    /\ calls[1].pc = "done" /\ calls[1].method = "getJobStatus"
    /\ calls[2].pc = "done" /\ calls[2].method = "getJobStatus"
    /\ calls[1].args = calls[2].args
    /\ calls[1].nreq = 1 /\ calls[2].nreq = 1
    /\ Get(Get(calls[1].req, "headers"), "Authorization") = S("Bearer tokA")
    /\ calls[1].result = Return(JobStarted)
    /\ calls[2].result = Return(JobSucceeded)

----------------------------------------------------------------------------
(* Where a value occurs *)

RECURSIVE Mentions(_, _)
\* the string v occurs in the value x: as a value of x, at any depth, as the
\* filename of a form field, or as the token of a bearer header
Mentions(x, v) ==
    CASE x.t = "object" -> \E i \in 1..Len(x.v) : Mentions(x.v[i][2], v)
      [] x.t = "FormData" ->
            \E i \in 1..Len(x.v) : Mentions(x.v[i].value, v) \/ x.v[i].filename = v
      [] x.t = "string" -> x = v \/ x = S("Bearer " \o v.v)
      [] OTHER -> FALSE

\* the client id and secret id of the logins
Secrets == UNION { {cred[1], cred[2]} : cred \in Credentials }

\* the request config without its body
WithoutData(req) == O(SelectSeq(req.v, LAMBDA p : p[1] # "data"))

----------------------------------------------------------------------------
(* C17: the client id and the secret id given to login appear only in the    *)
(* body of that /login request: no field of the client holds them at any     *)
(* time, the /login request carries them nowhere but in its body, and no     *)
(* request of any other method carries them.                                 *)
C17_CredentialsOnlyInLoginBody ==
    \A v \in Secrets :
        /\ \A c \in Clients :
              ~Mentions(loginData[c], v) /\ ~Mentions(fetchInit[c], v)
        /\ \A s \in Slots :
              LET call == calls[s] IN
              call.req # Undefined =>
                  /\ call.path # v
                  /\ ~Mentions(WithoutData(call.req), v)
                  /\ IF call.method = "login"
                     THEN Get(call.req, "data")
                            = O(<< <<"clientId", call.args[1]>>,
                                   <<"secretId", call.args[2]>> >>)
                     ELSE ~Mentions(call.req, v)

\* a login has sent the credentials in its body and has returned; the Session
\* holds the triple of the response and no credential, and a status request
\* issued with the token of that Session carries no credential either
C17_Witness ==
    /\ loginData["c1"] = TripleA
    /\ \E s \in Slots :
          /\ calls[s].pc = "done"
          /\ calls[s].method = "login"
          /\ calls[s].result = Return(TripleA)
          /\ Mentions(Get(calls[s].req, "data"), S("cid"))
          /\ Mentions(Get(calls[s].req, "data"), S("sid"))
    /\ \E s \in Slots :
          /\ calls[s].pc = "await"
          /\ calls[s].method = "getJobStatus"
          /\ Get(Get(calls[s].req, "headers"), "Authorization") = S("Bearer tokA")
          /\ \A v \in Secrets : ~Mentions(calls[s].req, v)

----------------------------------------------------------------------------
(* C18: against a server that keeps a webhook registry, and with no other    *)
(* webhook call in between: the list that getWebhooks returns after a        *)
(* successful createWebhook(url) holds a record whose webhookUrl is url; the *)
(* list it returns after a successful deleteWebhook(id) holds no record      *)
(* whose uuid is id; and the list it returns after every record of the       *)
(* previous list has been deleted is empty.                                  *)

\* the records of the list that the invocation returned
Listed(call) == { call.result.value.v[i] : i \in 1..Len(call.result.value.v) }

C18_WebhookRoundTrip ==
    [][\A s \in Slots :
          (/\ SettlesIn(s)
           /\ calls[s].method = "getWebhooks"
           /\ calls'[s].result.kind = "return") =>
              LET list == Listed(calls'[s])
                  last == webhooks.last
              IN  /\ calls'[s].result.value.t = "array"
                  /\ last.method = "createWebhook" =>
                        \E r \in list : Get(r, "webhookUrl") = last.arg
                  /\ last.method = "deleteWebhook" =>
                        \A r \in list : Get(r, "uuid") # last.arg
                  /\ (webhooks.sweep /\ webhooks.pending = {}) =>
                        list = {}]_vars

\* two webhooks were created and listed, every record of the list was
\* deleted, and getWebhooks, called right after the last deletion, has
\* returned the empty list
C18_Witness ==
    /\ webhooks.minted = 2
    /\ webhooks.last = [method |-> "getWebhooks", after |-> "deleteWebhook",
                        swept |-> TRUE]
    /\ \E s \in Slots :
          /\ calls[s].pc = "done"
          /\ calls[s].method = "getWebhooks"
          /\ calls[s].result = Return(Array(<<>>))

----------------------------------------------------------------------------
(* The documented routes *)

\* the HTTP method and the path of the route of the invocation
Route(call) ==
    CASE call.method = "login" -> [method |-> "POST", path |-> "/login"]
      [] call.method = "refresh" -> [method |-> "POST", path |-> "/token"]
      [] call.method \in JobMethods ->
            [method |-> "POST", path |-> "/innovation-service/anonymization"]
      [] call.method = "getJobStatus" ->
            [method |-> "GET",
             path |-> "/innovation-service/anonymization?anonymization_job_id="
                         \o call.args[1].v]
      [] call.method \in {"getResultFile", "saveResultFile"} ->
            [method |-> "GET", path |-> "/innovation-service/result/" \o call.args[1].v]
      [] call.method = "getWebhooks" ->
            [method |-> "GET", path |-> "/webhook-url/get-many"]
      [] call.method = "createWebhook" -> [method |-> "POST", path |-> "/webhook-url"]
      [] call.method = "updateWebhook" ->
            [method |-> "PUT", path |-> "/webhook-url/" \o call.args[1].v]
      [] call.method = "deleteWebhook" ->
            [method |-> "DELETE", path |-> "/webhook-url/" \o call.args[1].v]
      [] call.method = "testWebhook" ->
            [method |-> "POST", path |-> "/webhook-url/test/" \o call.args[1].v]

\* the body of the request of the invocation is the body of its route
RouteBody(call) ==
    LET data == Get(call.req, "data") IN
    CASE call.method = "login" ->
            data = O(<< <<"clientId", call.args[1]>>, <<"secretId", call.args[2]>> >>)
      [] call.method = "refresh" ->
            IsObj(data) /\ Len(data.v) = 1 /\ data.v[1][1] = "refreshToken"
      [] call.method \in JobMethods -> data.t = "FormData"
      [] call.method = "createWebhook" ->
            data = O(<< <<"webhookUrl", call.args[1]>> >>)
      [] call.method = "updateWebhook" ->
            data = O(<< <<"webhookUrl", call.args[2]>> >>)
      [] OTHER -> data = Undefined

\* the request of the invocation has the method and the body of its route
RouteMethodAndBody(call) ==
    /\ Get(call.req, "method") = S(Route(call).method)
    /\ RouteBody(call)

----------------------------------------------------------------------------
(* C19, as claimed: each public method issues its request with the HTTP      *)
(* method, the path and the body of its documented route.                    *)
C19_AsClaimed ==
    \A s \in Slots :
        LET call == calls[s] IN
        call.req # Undefined =>
            /\ Get(call.req, "url") = S(Route(call).path)
            /\ RouteMethodAndBody(call)

----------------------------------------------------------------------------
(* The base configuration in the requests *)

\* the fields of the request config that the invoked method sets itself
MethodSets(call) ==
    {"method"}
    \cup (IF call.method \in JobMethods
                \cup {"login", "refresh", "createWebhook", "updateWebhook"}
          THEN {"data"} ELSE {})
    \cup (IF call.method \in {"getResultFile", "saveResultFile"}
          THEN {"responseType"} ELSE {})

\* the value that the invoked method gives to the field k that it sets
PerCall(call, k) ==
    CASE k = "method" -> Get(call.req, "method") = S(Route(call).method)
      [] k = "data" -> RouteBody(call)
      [] k = "responseType" ->
            Get(call.req, "responseType")
               = (IF call.method = "saveResultFile" THEN S("stream")
                  ELSE getResultFileType(call.args[2]))

\* every header of the base configuration, the Authorization header apart,
\* is a header of the request
BaseHeadersKept(req, headers) ==
    IsObj(headers) =>
        \A i \in 1..Len(headers.v) :
            headers.v[i][1] # "Authorization" =>
                Get(Get(req, "headers"), headers.v[i][1]) = headers.v[i][2]

----------------------------------------------------------------------------
(* C20, as claimed: the base configuration given at construction applies to  *)
(* every call: each setting of it that the invoked method does not set       *)
(* itself is present unchanged in the request, and where the method and the  *)
(* base configuration set the same field the value of the method wins.  The  *)
(* url is left aside here: the path of the request is the matter of C25.     *)
C20_AsClaimed ==
    \A s \in Slots :
        LET call == calls[s]
            fi == fetchInit[call.client]
        IN  (call.req # Undefined /\ IsObj(fi)) =>
                \A i \in 1..Len(fi.v) :
                    LET k == fi.v[i][1] IN
                    CASE k = "url" -> TRUE
                      [] k = "headers" -> BaseHeadersKept(call.req, fi.v[i][2])
                      [] k \in MethodSets(call) -> PerCall(call, k)
                      [] OTHER -> Get(call.req, k) = fi.v[i][2]

----------------------------------------------------------------------------
(* Blurit.new: the static constructor that logs in.  The instance is made    *)
(* inside new, and the caller holds it (built[c]) once new has returned it   *)

\* a mutant of newOutcome: new returns the instance whatever login did
newOutcome_caught(c, loginOut) == Return([t |-> "Blurit", v |-> c])

\* `await instance.login(clientId, secretId); return instance;`, given what
\* login resolved or rejected with: a rejection leaves new as it is
newOutcome(c, loginOut) ==
    IF loginOut.kind = "throw" THEN loginOut
    ELSE Return([t |-> "Blurit", v |-> c])

\* Blurit.new(clientId, secretId, fetchInit) up to its await: the constructor
\* runs (the instance is of the common class), and login issues its request
new(s, c, clientId, secretId, fi) ==
    /\ calls[s].pc = "idle"
    /\ ~built[c]
    /\ \A t \in Slots : calls[t].pc # "idle" => calls[t].client # c
    /\ fetchInit' = [fetchInit EXCEPT ![c] = fi]
    /\ isNode' = [isNode EXCEPT ![c] = typeofWindowUndefined]
    /\ variant' = [variant EXCEPT ![c] = "common"]
    /\ loginData' = [loginData EXCEPT ![c] = EmptyObj]
    /\ calls' = [calls EXCEPT ![s] =
                   [NewCall(c, "new", <<clientId, secretId, fi>>) EXCEPT
                       !.pc = "login",
                       !.path = S("/login"),
                       !.req = requestConfig("/login", fi,
                                   O(<< <<"method", S("POST")>>,
                                        <<"data", O(<< <<"clientId", clientId>>,
                                                       <<"secretId", secretId>> >>)>>,
                                        <<"noBearer", B(TRUE)>> >>),
                                   EmptyObj),
                       !.nreq = 1]]
    /\ UNCHANGED <<window, built, authLog, form, webhooks, disk>>

\* the response `res` arrives for the login that new awaits: request and login
\* go on from their awaits, and then new does
newLoginResolves(s, res) ==
    /\ calls[s].pc = "login"
    /\ LET call == calls[s]
           c == call.client
           theLogin == [call EXCEPT !.method = "login"]
           out == requestOutcome(call.path.v, res)
           newOut == newOutcome(c, afterRequest(theLogin, out))
       IN  /\ calls' = [calls EXCEPT ![s] = [Settle(call, newOut) EXCEPT !.res = res]]
           /\ loginData' = IF savesSession(theLogin, out)
                           THEN thisLoginData(loginData, c,
                                              saveLoginData(loginData[c], out.value))
                           ELSE loginData
           /\ built' = [built EXCEPT ![c] = newOut.kind = "return"]
    /\ UNCHANGED <<window, variant, isNode, fetchInit, authLog, form, webhooks, disk>>

\* the transport raised `err` for the login that new awaits
newLoginRejects(s, err) ==
    /\ calls[s].pc = "login"
    /\ LET call == calls[s]
           c == call.client
           newOut == newOutcome(c, requestRejected(call, err).result)
       IN  /\ calls' = [calls EXCEPT ![s] = [Settle(call, newOut) EXCEPT !.res = err]]
           /\ built' = [built EXCEPT ![c] = newOut.kind = "return"]
    /\ UNCHANGED <<window, variant, isNode, fetchInit, loginData, authLog, form,
                   webhooks, disk>>

\* no client is constructed yet; two invocations may run at the same time
NewInit ==
    /\ Constructed({})
    /\ ~window
    /\ calls = <<IdleCall, IdleCall>>
    /\ authLog = NoHistory
    /\ form = Undefined
    /\ webhooks = NoWebhooks
    /\ disk = NoFiles

NewNext ==
    \/ \E s \in Slots, c \in Clients, cred \in Credentials, fi \in FetchInits :
          new(s, c, cred[1], cred[2], fi)
    \/ \E s \in Slots, res \in SessionResponses : newLoginResolves(s, res)
    \/ \E s \in Slots, err \in SessionErrors : newLoginRejects(s, err)
    \/ \E s \in Slots, c \in Clients : refresh(s, c)
    \/ \E s \in Slots, c \in Clients, j \in JobIds : getJobStatus(s, c, j)
    \/ \E s \in Slots, res \in SessionResponses : requestResolves(s, res)
    \/ \E s \in Slots, err \in SessionErrors : requestRejects(s, err)
    \/ \E s \in Slots : callerReceives(s)

SpecNew == NewInit /\ [][NewNext]_vars

(* C21: Blurit.new yields a client only after its login has succeeded, and   *)
(* that client's Session is then the body of that login response; when the   *)
(* login fails (the transport raises an error, or the status is 300 or more) *)
(* new fails with the error the login failed with, and the caller gets no    *)
(* client.  A client comes to be held by the caller in no other way.         *)
C21_NewYieldsLoggedInClient ==
    [][ /\ \A s \in Slots :
              calls[s].pc = "login" /\ calls'[s].pc = "done" =>
                  LET c == calls[s].client
                      res == calls'[s].res
                  IN  IF IsResponse(res) /\ res.status < 300
                      THEN /\ calls'[s].result = Return([t |-> "Blurit", v |-> c])
                           /\ built'[c]
                           /\ loginData'[c] = res.data
                      ELSE /\ calls'[s].result =
                                 Throw(IF IsResponse(res)
                                       THEN GenericError(calls'[s], res) ELSE res)
                           /\ ~built'[c]
        /\ \A c \in Clients :
              built'[c] /\ ~built[c] =>
                  \E s \in Slots : /\ calls[s].pc = "login"
                                   /\ calls[s].client = c
                                   /\ calls'[s].pc = "done"
                                   /\ IsResponse(calls'[s].res)
                                   /\ calls'[s].res.status < 300 ]_vars

\* new has returned the client c2, made with a base configuration, after the
\* login answered 200 with the triple A, which is the Session of c2
C21_Witness ==
    \E s \in Slots :
        /\ calls[s].method = "new"
        /\ calls[s].pc = "done"
        /\ calls[s].res = [status |-> 200, statusText |-> "OK", data |-> TripleA]
        /\ calls[s].result = Return([t |-> "Blurit", v |-> "c2"])
        /\ built["c2"]
        /\ fetchInit["c2"] # Undefined
        /\ loginData["c2"] = TripleA

----------------------------------------------------------------------------
(* C22, as claimed: getResultFile called with a filename and no              *)
(* representation argument fetches the result as a stream: the request that  *)
(* it issues asks the transport for the response type "stream".              *)
C22_AsClaimed ==
    \A s \in Slots :
        /\ calls[s].method = "getResultFile"
        /\ calls[s].args[2] = Undefined
        /\ calls[s].nreq > 0
        => Get(calls[s].req, "responseType") = S("stream")

----------------------------------------------------------------------------
(* C23, as claimed: when the promise returned by saveResultFile(filename,    *)
(* outputFilename) has resolved, the output file has been created and the    *)
(* whole result has been written to it: the write stream has ended, and the  *)
(* file holds the chunks of the response body, all of them and nothing else. *)
C23_AsClaimed ==
    \A s \in Slots :
        /\ calls[s].method = "saveResultFile"
        /\ calls[s].pc = "done"
        /\ calls[s].result.kind = "return"
        => /\ disk[calls[s].args[2]].state = "closed"
           /\ disk[calls[s].args[2]].data = calls[s].res.data.v

----------------------------------------------------------------------------
(* C24: the Authorization header of a request carries the token that the     *)
(* Session holds at the moment the request is issued, and the request handed *)
(* to the transport does not change afterwards: a login or refresh that      *)
(* completes while another request is in flight replaces the Session, and    *)
(* leaves the request in flight, its header included, as it was issued.      *)
C24_TokenFixedAtIssue ==
    [][\A s \in Slots :
          /\ (IssuesIn(s) /\ calls'[s].path # S("/login"))
                => Get(Get(calls'[s].req, "headers"), "Authorization")
                      = S("Bearer " \o ToStr(Get(loginData[calls'[s].client], "token")))
          /\ calls[s].pc = "await" => calls'[s].req = calls[s].req]_vars

\* a status request issued with the token tokA is still in flight after a
\* refresh has replaced the Session by the token tokC, and a second status
\* request, issued after the refresh, is in flight with tokC
C24_Witness ==
    /\ Get(loginData["c1"], "token") = S("tokC")
    /\ Len(authLog.log) = 2
    /\ authLog.log[2].method = "refresh"
    /\ \E s, t \in Slots :
          /\ calls[s].pc = "await"
          /\ calls[s].method = "getJobStatus"
          /\ Get(Get(calls[s].req, "headers"), "Authorization") = S("Bearer tokA")
          /\ calls[t].pc = "await"
          /\ calls[t].method = "getJobStatus"
          /\ Get(Get(calls[t].req, "headers"), "Authorization") = S("Bearer tokC")

----------------------------------------------------------------------------
(* C25, as claimed: for every base configuration given at construction,      *)
(* every request is addressed to the path that the invoked method has        *)
(* chosen: no field of the base configuration replaces it.                   *)
C25_AsClaimed ==
    \A s \in Slots :
        calls[s].req # Undefined => Get(calls[s].req, "url") = calls[s].path

----------------------------------------------------------------------------
----------------------------------------------------------------------------
(* C27: every scalar leaf of the options that is defined, the falsy values   *)
(* false, 0 and the empty string included, is encoded as exactly one form    *)
(* field, and the fields follow one another in the depth-first order of the  *)
(* keys: the fields of a nested object stand together, in the order of its   *)
(* keys, at the place of the key that holds it.  Only undefined and null     *)
(* leaves produce no field.                                                  *)
C27_FalsyLeavesKeptInOrder ==
    (form # Undefined /\ form.data # Undefined /\ IsObj(Get(form.args, "options"))) =>
        LET o == Get(form.args, "options")
            fields == OptionFields(form.data)
            Kept(pairs) == SelectSeq(pairs, LAMBDA p : p[2] \notin {Undefined, Null})
            Under(k, sub) == [j \in 1..Len(Kept(sub.v)) |->
                                 <<k \o "[" \o Kept(sub.v)[j][1] \o "]",
                                   ToStr(Kept(sub.v)[j][2])>>]
            At(i) == IF IsObj(o.v[i][2]) THEN Under(o.v[i][1], o.v[i][2])
                     ELSE IF o.v[i][2] \in {Undefined, Null} THEN <<>>
                     ELSE << <<o.v[i][1], ToStr(o.v[i][2])>> >>
            RECURSIVE From(_)
            From(i) == IF i > Len(o.v) THEN <<>> ELSE At(i) \o From(i + 1)
        IN  [i \in 1..Len(fields) |-> <<fields[i].name, fields[i].value.v>>] = From(1)

\* a form has been built from options whose nested object comes first and
\* holds an empty string and a 0, followed by a top-level false: three fields,
\* in that order
C27_Witness ==
    /\ form # Undefined
    /\ form.data # Undefined
    /\ Get(form.args, "options")
         = O(<< <<"blur_type", O(<< <<"hex_color", S("")>>,
                                    <<"num_pixels", N(0)>> >>)>>,
                <<"activation_faces_blur", B(FALSE)>> >>)
    /\ Len(form.data.v) = 4
    /\ form.data.v[2].name = "blur_type[hex_color]" /\ form.data.v[2].value = S("")
    /\ form.data.v[3].name = "blur_type[num_pixels]" /\ form.data.v[3].value = S("0")
    /\ form.data.v[4].name = "activation_faces_blur"
    /\ form.data.v[4].value = S("false")

----------------------------------------------------------------------------
(* The pull-mode example (src/examples/with_pull.ts): run polls the status   *)
(* of its job and saves the result.  Slot 1 holds run, from its polling loop *)
(* on; slot 2 holds the method of the client that run awaits.  run.seen is   *)
(* the history of the calls of getJobStatus that have settled: how many (n), *)
(* what the last one gave (last: a status, or Threw), and whether a call was *)
(* made after one that gave Succeeded or threw (passed)                      *)

maxRetries == 10

Threw == [t |-> "threw"]

\* what the server may answer to the request of the method in flight: to
\* getJobStatus a status of the job or an error, to saveResultFile the file
PullResponses(method) ==
    IF method = "getJobStatus"
    THEN { [status |-> 200, statusText |-> "OK", data |-> JobStarted],
           [status |-> 200, statusText |-> "OK",
            data |-> O(<< <<"status", S("Failed")>>, <<"error", S("no face")>> >>)],
           [status |-> 200, statusText |-> "OK",
            data |-> O(<< <<"status", S("Succeeded")>>,
                          <<"output_media", FilePath(<<"results", "out.jpeg">>)>> >>)],
           [status |-> 200, statusText |-> "OK",
            data |-> O(<< <<"status", S("Succeeded")>> >>)],
           [status |-> 404, statusText |-> "Not Found", data |-> ErrorBody] }
    ELSE { [status |-> 200, statusText |-> "OK", data |-> StreamBody],
           [status |-> 404, statusText |-> "Not Found", data |-> ErrorBody] }

\* the file that run saves to does not exist yet
PullNoFiles ==
    [o \in {S("./images/face_anonymized.jpg")} |->
        [state |-> "absent", data |-> <<>>, rest |-> <<>>]]

\* the history `seen`, one more call of getJobStatus having given `outcome`
Seen(seen, outcome) ==
    [n |-> seen.n + 1, last |-> outcome,
     passed |-> seen.passed \/ seen.last \in {S("Succeeded"), Threw}]

\* blurit.getJobStatus(data.anonymization_job_id), up to its await
jobStatusCall(jobId) ==
    request(NewCall("c1", "getJobStatus", <<jobId>>),
            "/innovation-service/anonymization?anonymization_job_id=" \o ToStr(jobId),
            O(<< <<"method", S("GET")>> >>))

\* a mutant of whileCondition: the test `retries <= maxRetries`
whileCondition_le(done, retries) == ~done.v /\ retries.v <= maxRetries

\* while (!done && retries < maxRetries)
whileCondition(done, retries) == ~done.v /\ retries.v < maxRetries

\* getJobStatus has settled: run goes on from its await to the timer, or
\* rejects with what getJobStatus rejected with
runGetsStatus ==
    /\ calls[1].pc = "status"
    /\ calls[2].pc = "done"
    /\ LET run == calls[1]
           out == calls[2].result
           jobStatus == out.value
           succeeded == Get(jobStatus, "status") = S("Succeeded")
       IN  calls' =
             IF out.kind = "throw"
             THEN << [Settle(run, out) EXCEPT !.seen = Seen(@, Threw)], IdleCall >>
             ELSE << [run EXCEPT
                        !.pc = "timer",
                        !.seen = Seen(@, Get(jobStatus, "status")),
                        !.locals = Put(Put(Put(@, "jobStatus", jobStatus),
                                           "done", IF succeeded THEN B(TRUE)
                                                   ELSE Get(@, "done")),
                                       "retries", N(Get(@, "retries").v + 1))],
                     IdleCall >>
    /\ UNCHANGED <<window, config, loginData, authLog, form, webhooks, disk>>

\* the 500 ms have passed: the loop goes on with another getJobStatus, or run
\* leaves it, to throw "Job failed" or to call saveResultFile
runTimerFires ==
    /\ calls[1].pc = "timer"
    /\ LET run == calls[1]
           done == Get(run.locals, "done")
           jobId == Get(Get(run.locals, "data"), "anonymization_job_id")
           output_media == Get(Get(run.locals, "jobStatus"), "output_media")
           outputFilename == S("./images/face_anonymized.jpg")
       IN  calls' =
             IF whileCondition(done, Get(run.locals, "retries"))
             THEN << [run EXCEPT !.pc = "status"], jobStatusCall(jobId) >>
             ELSE IF ~done.v
             THEN << Settle(run, Throw(Err("Job failed"))), IdleCall >>
             ELSE IF output_media = Undefined
             THEN << Settle(run, Throw([t |-> "TypeError",
                        v |-> "Cannot read properties of undefined (reading 'split')"])),
                     IdleCall >>
             ELSE << [run EXCEPT !.pc = "save"],
                     getResultFileBody(
                         NewCall("c1", "saveResultFile",
                                 <<LastSegment(output_media), outputFilename>>),
                         LastSegment(output_media), S("stream")) >>
    /\ UNCHANGED <<window, config, loginData, authLog, form, webhooks, disk>>

\* saveResultFile has settled: run ends, or rejects with what it rejected with
runSaved ==
    /\ calls[1].pc = "save"
    /\ calls[2].pc = "done"
    /\ calls' = << Settle(calls[1], IF calls[2].result.kind = "throw"
                                    THEN calls[2].result ELSE Return(Undefined)),
                   IdleCall >>
    /\ UNCHANGED <<window, config, loginData, authLog, form, webhooks, disk>>

\* run has logged in and created its job, and has called getJobStatus for the
\* first time (line 27)
PullInit ==
    /\ window = FALSE
    /\ built = [c \in Clients |-> c = "c1"]
    /\ variant = [c \in Clients |-> "node"]
    /\ isNode = [c \in Clients |-> TRUE]
    /\ fetchInit = [c \in Clients |-> Undefined]
    /\ loginData = [c \in Clients |-> IF c = "c1" THEN TripleA ELSE EmptyObj]
    /\ calls = << [NewCall("c1", "run", <<>>) EXCEPT
                      !.pc = "status",
                      !.locals = O(<< <<"data", O(<< <<"anonymization_job_id",
                                                       S("job1")>> >>)>>,
                                      <<"done", B(FALSE)>>,
                                      <<"retries", N(0)>>,
                                      <<"jobStatus", Undefined>> >>)],
                  jobStatusCall(S("job1")) >>
    /\ authLog = NoHistory
    /\ form = Undefined
    /\ webhooks = NoWebhooks
    /\ disk = PullNoFiles

PullNext ==
    \/ \E res \in PullResponses(calls[2].method) : requestResolves(2, res)
    \/ \E err \in SessionErrors : requestRejects(2, err)
    \/ runGetsStatus
    \/ runTimerFires
    \/ runSaved
    \/ \E o \in DOMAIN disk : fileOpens(o)
    \/ \E o \in DOMAIN disk : chunkWritten(o)

\* the event loop runs what is ready, the timer fires, and the server answers
SpecPull == PullInit /\ [][PullNext]_vars /\ WF_vars(PullNext)

(* C28: the polling loop of the pull-mode example terminates whatever the    *)
(* statuses of the job are: run ends.  It calls getJobStatus at least once   *)
(* and at most 10 times; no call follows one that gave Succeeded (or one     *)
(* that failed); saveResultFile is called only after a call gave Succeeded;  *)
(* and when every call gave a status and none gave Succeeded, run ends after *)
(* the 10th call with the error "Job failed", and nothing has been saved.    *)
C28_PollingLoopEnds ==
    /\ <>(calls[1].pc = "done")
    /\ [](LET run == calls[1]
              seen == run.seen
              polling == calls[2].pc # "idle" /\ calls[2].method = "getJobStatus"
              saving == calls[2].pc # "idle" /\ calls[2].method = "saveResultFile"
              goesOn == seen.last \notin {S("Succeeded"), Threw}
          IN  /\ seen.n + (IF polling THEN 1 ELSE 0) <= 10
              /\ ~seen.passed
              /\ polling => goesOn
              /\ (saving \/ disk # PullNoFiles) => seen.last = S("Succeeded")
              /\ run.pc = "done" =>
                    /\ seen.n >= 1
                    /\ ~polling /\ ~saving
                    /\ goesOn <=> run.result = Throw(Err("Job failed"))
                    /\ run.result = Throw(Err("Job failed"))
                          => seen.n = 10 /\ disk = PullNoFiles)

\* run has ended with "Job failed" after ten calls of getJobStatus, the last of
\* which gave Failed, and nothing was saved
C28_Witness ==
    /\ calls[1].method = "run"
    /\ calls[1].pc = "done"
    /\ calls[1].result = Throw(Err("Job failed"))
    /\ calls[1].seen = [n |-> 10, last |-> S("Failed"), passed |-> FALSE]
    /\ Get(calls[1].locals, "retries") = N(10)
    /\ calls[2] = IdleCall
    /\ disk = PullNoFiles

====
